---- MODULE Spec2Model ----
(***************************************************************************)
(* A model of the YouTube search scraper: the scroll-and-harvest loop of   *)
(* YoutubeScraper.scrape with the teardown of scrape_youtube, the          *)
(* connection handling of BrowserlessClient, and save_results with its     *)
(* local and Google Sheets backends.                                       *)
(*                                                                         *)
(* The three parts share no state in the program; each has its own         *)
(* specification (SpecScrape, SpecClient, SpecPersist) over the module's   *)
(* variables and leaves the other parts' variables alone.                  *)
(***************************************************************************)
EXTENDS Integers, Sequences, FiniteSets, TLC

VARIABLES
    \* ---- YoutubeScraper.scrape / scrape_youtube
    pc,               \* position in scrape_youtube / scrape
    max_results,      \* the target count passed to scrape
    dom,              \* the rendered ytd-video-renderer elements, in DOM order
    video_elements,   \* the list the last query_selector_all returned
    idx,              \* position of the for loop in video_elements (1-based)
    results,          \* the harvested records
    prev_count,
    scroll_attempts,
    returned,         \* what scrape returned (<<>> until it returns)
    outcome,          \* how scrape ended: "none", "ok", "error", "cancelled"
    res,              \* page, context, browser, playwright: "none", "open", "closed"
    handed,           \* history: ids of the elements passed to _extract_video_data
    handed_again,     \* history: ids of the elements passed to it more than once
    cycle_start_len,  \* history: len(results) when the current cycle queried the DOM
    stagnant_run      \* history: consecutive finished cycles that added no record

scrapeVars == <<pc, max_results, dom, video_elements, idx, results, prev_count,
                scroll_attempts, returned, outcome, res, handed, handed_again,
                cycle_start_len, stagnant_run>>

VARIABLES
    \* ---- YoutubeScraper._init_browser
    cdp_failures      \* history: connect_over_cdp calls of it that raised

initVars == <<cdp_failures>>

VARIABLES
    \* ---- main
    save_arg          \* the list main passed to save_results (<<>>: no call made)

mainVars == <<save_arg>>

VARIABLES
    \* ---- BrowserlessClient
    cpc,                \* "idle", or the position in connect: "attempt", "sleep"
    max_retries,        \* config.max_retries
    attempt,            \* the loop variable of connect
    client_playwright,  \* self.playwright and its driver: "none", "running", "stopped"
    client_browser,     \* self.browser and its session: "none", "open", "closed"
    conn_result,        \* how the last connect ended: "none", "returned", "raised"
    conn_value,         \* what it returned: "browser", or "None"
    attempts_made,      \* history: attempts of the current / last connect
    succeeded,          \* history: attempts of it that succeeded
    delays,             \* history: the delays it slept
    disc_result,        \* how the last disconnect ended: "none", "returned", "raised"
    consec_disc,        \* history: disconnect calls in a row (counted up to 2)
    before_disc,        \* history: <<browser, playwright>> before the last disconnect
    hpc,                \* "idle", or the position in health_check: "connect", "probe"
    hc_result,          \* how the last health_check ended: "none", "true", "false", "raised"
    hc_context,         \* its throwaway context: "none", "open", "closed"
    hc_page,            \* its throwaway page: "none", "open", "closed"
    hc_failed           \* history: the step of it that raised ("none": no step)

hcVars == <<hpc, hc_result, hc_context, hc_page, hc_failed>>

clientVars == <<cpc, max_retries, attempt, client_playwright, client_browser,
                conn_result, conn_value, attempts_made, succeeded, delays,
                disc_result, consec_disc, before_disc, hcVars>>

VARIABLES
    \* ---- save_results and its backends
    ppc,             \* "idle", or the position in save_results: "local", "sheets", "summary"
    sv_results,      \* the results list of save_results (reassigned by the dedup)
    use_local,
    use_sheets,      \* use_sheets and config.sheet_id
    success_count,
    sheet,           \* the rows of the remote sheet, the header row first
    json_outcome,    \* this call's JSON save: "skipped", "saved", "failed", "raised"
    csv_outcome,     \* this call's CSV save: the same
    remote_outcome,  \* this call's Sheets block: "skipped", "nothing", "saved", "failed", "raised"
    persists,        \* history: save_results calls made
    cur_arg,         \* history: the list the current / last call was given
    cur_clean,       \* history: it ran with the remote backend on and no remote fault
    appended,        \* history: rows it appended to the sheet
    prev_arg,        \* history: cur_arg of the call before
    prev_clean,      \* history: cur_clean of the call before
    fetch_failed     \* history: check_duplicates of the call in progress got no rows

persistVars == <<ppc, sv_results, use_local, use_sheets, success_count, sheet,
                 json_outcome, csv_outcome, remote_outcome, persists, cur_arg,
                 cur_clean, appended, prev_arg, prev_clean, fetch_failed>>

VARIABLES
    \* ---- LocalFileStorage, format json
    file,            \* the file: absent, a JSON array of records, or a partial write
    save_ret,        \* what the last save returned: "none", "true", "false"
    loaded,          \* what the last load returned
    saves,           \* history: save calls since the file was fresh or cleared
    failed_saves,    \* history: those of them that returned False
    saved_log        \* history: the lists of the others, stamped, in call order

localVars == <<file, save_ret, loaded, saves, failed_saves, saved_log>>

VARIABLES
    \* ---- YoutubeScraper._parse_views_count
    vpc,             \* "input", "parsed" (called once), "again" (called twice)
    views_text,      \* the argument
    views_count,     \* what the call returned, or that it raised
    views_again      \* what a second call on the same argument returned

parseVars == <<vpc, views_text, views_count, views_again>>

vars == <<scrapeVars, initVars, mainVars, clientVars, persistVars, localVars,
          parseVars>>

\* What the steps of one part leave alone: the state of the other parts (for
\* scrape: also what only _init_browser and main set).
outsideScrape == <<initVars, mainVars, clientVars, persistVars, localVars, parseVars>>
outsideClient == <<scrapeVars, initVars, mainVars, persistVars, localVars, parseVars>>
outsidePersist == <<scrapeVars, initVars, mainVars, clientVars, localVars, parseVars>>
outsideLocal == <<scrapeVars, initVars, mainVars, clientVars, persistVars, parseVars>>
outsideParse == <<scrapeVars, initVars, mainVars, clientVars, persistVars, localVars>>

-----------------------------------------------------------------------------
\* Bounds of the model.
MaxTarget == 3        \* target counts 0..MaxTarget
MaxElems == 3         \* the DOM renders at most MaxElems elements
MaxRetries == 4       \* config.max_retries ranges over 0..MaxRetries
MaxBatch == 2         \* save_results is given at most MaxBatch records
MaxPersists == 2      \* save_results is called at most MaxPersists times
MaxLocalBatch == 1    \* LocalFileStorage.save is given at most MaxLocalBatch records
MaxLocalIds == 2      \* with ids 1..MaxLocalIds
MaxSaves == 2         \* and is called at most MaxSaves times between two clears
MaxTextLen == 4       \* _parse_views_count is tried on every text of up to MaxTextLen characters
MaxRendered == 8      \* the stub backend of the local test renders 1..MaxRendered elements

\* Program constants.
max_scroll_attempts == 10
retry_delay == 1
default_max_retries == 3
test_max_results == 5

None == "None"

\* The None that _extract_video_data returns in place of a record.
NoRecord == [id |-> 0]

Min(a, b) == IF a < b THEN a ELSE b

-----------------------------------------------------------------------------
\* The automation backend's elements.  An element either carries a title and
\* an href, lacks one of them, or makes a query on it raise.
Kinds == {"ok", "no_title", "no_url", "raises"}

Resources == <<"page", "context", "browser", "playwright">>
ResourceSet == {Resources[i] : i \in 1..Len(Resources)}

\* The elements appended to a DOM of n elements: ids continue the DOM order.
NewElements(n, k) ==
    { [i \in 1..k |-> [id |-> n + i, kind |-> f[i]]] : f \in [1..k -> Kinds] }

\* _extract_video_data: the record of an element, or None (NoRecord).  An
\* exception inside it is caught there and becomes None as well.
ExtractVideoData(element) ==
    IF element.kind = "raises" THEN NoRecord
    ELSE LET title == IF element.kind = "no_title" THEN None ELSE "title"
             url   == IF element.kind = "no_url" THEN None ELSE "url"
         IN  IF title = None \/ url = None
             THEN NoRecord
             ELSE [id |-> element.id]

\* results[:max_results] for max_results >= 0.
Truncate(s, n) == SubSeq(s, 1, Min(n, Len(s)))

-----------------------------------------------------------------------------
\* scrape_youtube: a fresh scraper, nothing acquired.
ScrapeFresh ==
    /\ pc = "start"
    /\ dom = <<>>
    /\ video_elements = <<>>
    /\ idx = 1
    /\ results = <<>>
    /\ prev_count = 0
    /\ scroll_attempts = 0
    /\ returned = <<>>
    /\ outcome = "none"
    /\ res = [r \in ResourceSet |-> "none"]
    /\ handed = {}
    /\ handed_again = {}
    /\ cycle_start_len = 0
    /\ stagnant_run = 0
    /\ save_arg = <<>>
    /\ cdp_failures = 0

ScrapeInit == ScrapeFresh /\ max_results \in 0..MaxTarget

\* The scrape part at rest.
ScrapeIdle == ScrapeFresh /\ max_results = 0

\* scrape is left (a return, an exception or a cancellation) and
\* scrape_youtube's finally runs.  The frame of scrape is gone: the loop's
\* locals no longer exist and take their initial values here; results stays
\* as the record of what had been harvested.
Leave(how, value) ==
    /\ outcome' = how
    /\ returned' = value
    /\ pc' = "finally"
    /\ video_elements' = <<>>
    /\ idx' = 1
    /\ prev_count' = 0
    /\ scroll_attempts' = 0
    /\ cycle_start_len' = 0
    /\ stagnant_run' = 0
    /\ UNCHANGED <<max_results, dom, results, handed, handed_again>>

\* _init_browser: the driver, the browser, the context and the page are
\* acquired in this order; the step failAt raises (or is interrupted) and
\* nothing after it runs.  The browser is one chromium.launch or, with
\* use_browserless, one connect_over_cdp: a call that raises is not repeated.
InitBrowser ==
    /\ pc = "start"
    /\ \E use_browserless \in BOOLEAN :
       \E failAt \in {"none", "playwright", "browser", "context", "page"} :
         LET got == CASE failAt = "playwright" -> {}
                      [] failAt = "browser"    -> {"playwright"}
                      [] failAt = "context"    -> {"playwright", "browser"}
                      [] failAt = "page"       -> {"playwright", "browser", "context"}
                      [] OTHER                 -> ResourceSet
         IN  /\ res' = [r \in ResourceSet |-> IF r \in got THEN "open" ELSE "none"]
             /\ IF failAt = "none"
                THEN /\ pc' = "goto"
                     /\ cdp_failures' = 0
                     /\ UNCHANGED <<max_results, dom, video_elements, idx, results,
                                    prev_count, scroll_attempts, returned, outcome,
                                    handed, handed_again, cycle_start_len,
                                    stagnant_run>>
                ELSE \E how \in {"error", "cancelled"} :
                       /\ Leave(how, <<>>)
                       /\ cdp_failures' =
                             IF use_browserless /\ failAt = "browser" /\ how = "error"
                             THEN 1 ELSE 0
    /\ UNCHANGED <<mainVars, clientVars, persistVars, localVars, parseVars>>

\* page.goto and wait_for_selector('ytd-video-renderer'): when the wait
\* returns at least one element is rendered; a timeout raises.
Navigate ==
    /\ pc = "goto"
    /\ \/ /\ \E k \in 1..MaxElems : dom' \in NewElements(0, k)
          /\ prev_count' = 0
          /\ scroll_attempts' = 0
          /\ pc' = "while"
          /\ UNCHANGED <<max_results, video_elements, idx, results, returned,
                         outcome, handed, handed_again, cycle_start_len,
                         stagnant_run>>
       \/ Leave("error", <<>>)
    /\ UNCHANGED res
    /\ UNCHANGED outsideScrape

\* while len(results) < max_results and scroll_attempts < max_scroll_attempts
WhileTest ==
    /\ pc = "while"
    /\ IF Len(results) < max_results /\ scroll_attempts < max_scroll_attempts
       THEN pc' = "query"
       ELSE pc' = "return"
    /\ UNCHANGED <<max_results, dom, video_elements, idx, results, prev_count,
                   scroll_attempts, returned, outcome, res, handed, handed_again,
                   cycle_start_len, stagnant_run>>
    /\ UNCHANGED outsideScrape

\* video_elements = query_selector_all(...): the DOM may have grown since the
\* last query (append-only); the for loop starts at video_elements[prev_count:].
QueryElements ==
    /\ pc = "query"
    /\ \/ /\ \E k \in 0..(MaxElems - Len(dom)) :
               \E new \in NewElements(Len(dom), k) : dom' = dom \o new
          /\ video_elements' = dom'
          /\ idx' = prev_count + 1
          /\ cycle_start_len' = Len(results)
          /\ pc' = "for"
          /\ UNCHANGED <<max_results, results, prev_count, scroll_attempts,
                         returned, outcome, handed, handed_again, stagnant_run>>
       \/ Leave("error", <<>>)
    /\ UNCHANGED res
    /\ UNCHANGED outsideScrape

\* ForStep without the "if len(results) >= max_results: break" of lines 108-109.
ForStep_NoBreak ==
    /\ pc = "for"
    /\ IF idx > Len(video_elements)
       THEN /\ pc' = "after"
            /\ UNCHANGED <<idx, results, handed, handed_again>>
       ELSE LET element == video_elements[idx]
                video_data == ExtractVideoData(element)
            IN  /\ handed' = handed \cup {element.id}
                /\ handed_again' = IF element.id \in handed
                                   THEN handed_again \cup {element.id}
                                   ELSE handed_again
                /\ results' = IF video_data # NoRecord
                              THEN Append(results, video_data)
                              ELSE results
                /\ idx' = idx + 1
                /\ UNCHANGED pc
    /\ UNCHANGED <<max_results, dom, video_elements, prev_count, scroll_attempts,
                   returned, outcome, res, cycle_start_len, stagnant_run>>
    /\ UNCHANGED outsideScrape

\* ForStep without the handlers of lines 116-118 and 207-209: an exception
\* raised while an element is extracted ends scrape.
ForStep_Aborts ==
    /\ pc = "for"
    /\ IF idx > Len(video_elements) \/ Len(results) >= max_results
       THEN /\ pc' = "after"
            /\ UNCHANGED <<max_results, dom, video_elements, idx, results,
                           prev_count, scroll_attempts, returned, outcome, handed,
                           handed_again, cycle_start_len, stagnant_run>>
       ELSE IF video_elements[idx].kind = "raises"
       THEN Leave("error", <<>>)
       ELSE LET element == video_elements[idx]
                video_data == ExtractVideoData(element)
            IN  /\ handed' = handed \cup {element.id}
                /\ handed_again' = IF element.id \in handed
                                   THEN handed_again \cup {element.id}
                                   ELSE handed_again
                /\ results' = IF video_data # NoRecord
                              THEN Append(results, video_data)
                              ELSE results
                /\ idx' = idx + 1
                /\ UNCHANGED <<max_results, dom, video_elements, pc, prev_count,
                               scroll_attempts, returned, outcome,
                               cycle_start_len, stagnant_run>>
    /\ UNCHANGED res
    /\ UNCHANGED outsideScrape

\* One iteration of "for element in video_elements[prev_count:]".
ForStep ==
    /\ pc = "for"
    /\ IF idx > Len(video_elements) \/ Len(results) >= max_results
       THEN /\ pc' = "after"
            /\ UNCHANGED <<idx, results, handed, handed_again>>
       ELSE LET element == video_elements[idx]
                video_data == ExtractVideoData(element)
            IN  /\ handed' = handed \cup {element.id}
                /\ handed_again' = IF element.id \in handed
                                   THEN handed_again \cup {element.id}
                                   ELSE handed_again
                /\ results' = IF video_data # NoRecord
                              THEN Append(results, video_data)
                              ELSE results
                /\ idx' = idx + 1
                /\ UNCHANGED pc
    /\ UNCHANGED <<max_results, dom, video_elements, prev_count, scroll_attempts,
                   returned, outcome, res, cycle_start_len, stagnant_run>>
    /\ UNCHANGED outsideScrape

\* ScrollOrReset with the "scroll_attempts = 0" of line 126 left out.
ScrollOrReset_NoReset ==
    /\ pc = "after"
    /\ IF Len(results) = prev_count
       THEN /\ pc' = "scroll"
            /\ UNCHANGED <<scroll_attempts, prev_count, stagnant_run>>
       ELSE /\ scroll_attempts' = scroll_attempts
            /\ prev_count' = Len(results)
            /\ stagnant_run' = IF Len(results) = cycle_start_len
                               THEN stagnant_run + 1 ELSE 0
            /\ pc' = "while"
    /\ UNCHANGED <<max_results, dom, video_elements, idx, results, returned,
                   outcome, res, handed, handed_again, cycle_start_len>>
    /\ UNCHANGED outsideScrape

\* Lines 121-128 but for the scroll: when the count did not change the scroll
\* is next; otherwise the counter is reset and prev_count follows the count.
ScrollOrReset ==
    /\ pc = "after"
    /\ IF Len(results) = prev_count
       THEN /\ pc' = "scroll"
            /\ UNCHANGED <<scroll_attempts, prev_count, stagnant_run>>
       ELSE /\ scroll_attempts' = 0
            /\ prev_count' = Len(results)
            /\ stagnant_run' = IF Len(results) = cycle_start_len
                               THEN stagnant_run + 1 ELSE 0
            /\ pc' = "while"
    /\ UNCHANGED <<max_results, dom, video_elements, idx, results, returned,
                   outcome, res, handed, handed_again, cycle_start_len>>
    /\ UNCHANGED outsideScrape

\* Scroll without the "scroll_attempts += 1" of line 124.
Scroll_NoCount ==
    /\ pc = "scroll"
    /\ \/ /\ scroll_attempts' = scroll_attempts
          /\ prev_count' = Len(results)
          /\ stagnant_run' = IF Len(results) = cycle_start_len
                             THEN stagnant_run + 1 ELSE 0
          /\ pc' = "while"
          /\ UNCHANGED <<max_results, dom, video_elements, idx, results,
                         returned, outcome, handed, handed_again, cycle_start_len>>
       \/ Leave("error", <<>>)
    /\ UNCHANGED res
    /\ UNCHANGED outsideScrape

\* Lines 122-124 and 128: page.evaluate scrolls to the bottom (it may raise),
\* the sleep, the counter goes up by one, and prev_count follows the count.
Scroll ==
    /\ pc = "scroll"
    /\ \/ /\ scroll_attempts' = scroll_attempts + 1
          /\ prev_count' = Len(results)
          /\ stagnant_run' = IF Len(results) = cycle_start_len
                             THEN stagnant_run + 1 ELSE 0
          /\ pc' = "while"
          /\ UNCHANGED <<max_results, dom, video_elements, idx, results,
                         returned, outcome, handed, handed_again, cycle_start_len>>
       \/ Leave("error", <<>>)
    /\ UNCHANGED res
    /\ UNCHANGED outsideScrape

\* return results[:max_results]
Return ==
    /\ pc = "return"
    /\ Leave("ok", Truncate(results, max_results))
    /\ UNCHANGED res
    /\ UNCHANGED outsideScrape

\* An external interrupt while scrape awaits the automation backend.
Cancel ==
    /\ pc \in {"goto", "query", "for", "scroll"}
    /\ Leave("cancelled", <<>>)
    /\ UNCHANGED res
    /\ UNCHANGED outsideScrape

\* The state of the resources after YoutubeScraper.close when the step
\* failAt raises ("none": no step raises): the steps run in the order of
\* Resources inside one try block, each only if its handle is set.
CloseResult(r0, failAt) ==
    LET pos(x) == CHOOSE i \in 1..Len(Resources) : Resources[i] = x
    IN  [r \in ResourceSet |->
           IF r0[r] = "open" /\ (failAt = "none" \/ pos(r) < pos(failAt))
           THEN "closed"
           ELSE r0[r]]

\* scrape_youtube's finally: await scraper.close().
Close ==
    /\ pc = "finally"
    /\ \E failAt \in {"none"} \cup {r \in ResourceSet : res[r] = "open"} :
         res' = CloseResult(res, failAt)
    /\ pc' = "done"
    /\ UNCHANGED <<max_results, dom, video_elements, idx, results, prev_count,
                   scroll_attempts, returned, outcome, handed, handed_again,
                   cycle_start_len, stagnant_run>>
    /\ UNCHANGED outsideScrape

\* main after scrape_youtube (lines 146-172): a non-empty returned list is
\* passed to save_results; an empty one is only logged; an exception or an
\* interrupt out of scrape_youtube ends the process with no save.
MainAfterScrape ==
    /\ pc = "done"
    /\ pc' = "exit"
    /\ save_arg' = IF outcome = "ok" /\ returned # <<>> THEN returned ELSE <<>>
    /\ UNCHANGED <<max_results, dom, video_elements, idx, results, prev_count,
                   scroll_attempts, returned, outcome, res, handed, handed_again,
                   cycle_start_len, stagnant_run>>
    /\ UNCHANGED <<initVars, clientVars, persistVars, localVars, parseVars>>

-----------------------------------------------------------------------------
\* BrowserlessClient.

\* __init__: no driver, no browser.
ClientFresh ==
    /\ cpc = "idle"
    /\ attempt = 0
    /\ client_playwright = "none"
    /\ client_browser = "none"
    /\ conn_result = "none"
    /\ conn_value = "None"
    /\ attempts_made = 0
    /\ succeeded = 0
    /\ delays = <<>>
    /\ disc_result = "none"
    /\ consec_disc = 0
    /\ before_disc = <<"none", "none">>
    /\ hpc = "idle"
    /\ hc_result = "none"
    /\ hc_context = "none"
    /\ hc_page = "none"
    /\ hc_failed = "none"

\* The client part at rest, max_retries as configured by default.
ClientIdle == ClientFresh /\ max_retries = default_max_retries

ClientInit == ClientFresh /\ max_retries \in 0..MaxRetries

\* Line 59 with an off-by-one: the last retry is given up.
ShouldRetry_OffByOne(a) == a < max_retries - 2

\* Line 59: "if attempt < config.max_retries - 1".
ShouldRetry(a) == a < max_retries - 1

\* Line 60: the delay slept after failed attempt a.
Delay_Constant(a) == retry_delay

\* Line 60: "delay = config.retry_delay * (2 ** attempt)".
Delay(a) == retry_delay * 2 ^ a

\* connect is entered: "for attempt in range(config.max_retries)".  With no
\* attempt to make the loop body never runs and the function ends without a
\* return statement.
ConnectEnter ==
    /\ attempt' = 0
    /\ attempts_made' = 0
    /\ succeeded' = 0
    /\ delays' = <<>>
    /\ consec_disc' = 0
    /\ IF max_retries > 0
       THEN /\ cpc' = "attempt"
            /\ conn_result' = "none"
            /\ conn_value' = "None"
       ELSE /\ cpc' = "idle"
            /\ conn_result' = "returned"
            /\ conn_value' = "None"
    /\ UNCHANGED <<max_retries, client_playwright, client_browser, disc_result,
                   before_disc>>

\* connect is called by the client's user.
ConnectCall ==
    /\ cpc = "idle"
    /\ hpc = "idle"
    /\ ConnectEnter
    /\ UNCHANGED hcVars
    /\ UNCHANGED outsideClient

\* One attempt (lines 37-69): start the driver unless self.playwright is
\* set, then connect_over_cdp.  Either call may raise; a stopped driver
\* cannot connect.  After a failure the loop sleeps or re-raises.
ConnectAttempt ==
    /\ cpc = "attempt"
    /\ attempts_made' = attempts_made + 1
    /\ \E step \in {"start_raises", "cdp_raises", "connected"} :
         /\ step = "start_raises" => client_playwright = "none"
         /\ step = "connected" => client_playwright # "stopped"
         /\ client_playwright' =
               IF step # "start_raises" /\ client_playwright = "none"
               THEN "running"
               ELSE client_playwright
         /\ IF step = "connected"
            THEN /\ client_browser' = "open"
                 /\ succeeded' = succeeded + 1
                 /\ conn_result' = "returned"
                 /\ conn_value' = "browser"
                 /\ cpc' = "idle"
                 /\ UNCHANGED delays
            ELSE /\ UNCHANGED <<client_browser, succeeded, conn_value>>
                 /\ IF ShouldRetry(attempt)
                    THEN /\ delays' = Append(delays, Delay(attempt))
                         /\ cpc' = "sleep"
                         /\ UNCHANGED conn_result
                    ELSE /\ conn_result' = "raised"
                         /\ cpc' = "idle"
                         /\ UNCHANGED delays
    /\ UNCHANGED <<max_retries, attempt, disc_result, consec_disc, before_disc>>
    /\ UNCHANGED hcVars
    /\ UNCHANGED outsideClient

\* asyncio.sleep(delay) is over: the next iteration of the for loop.
ConnectRetry ==
    /\ cpc = "sleep"
    /\ attempt' = attempt + 1
    /\ cpc' = "attempt"
    /\ UNCHANGED <<max_retries, client_playwright, client_browser, conn_result,
                   conn_value, attempts_made, succeeded, delays, disc_result,
                   consec_disc, before_disc>>
    /\ UNCHANGED hcVars
    /\ UNCHANGED outsideClient

\* disconnect (lines 73-82): browser.close() if self.browser, then
\* playwright.stop() if self.playwright, in one try block whose handler logs.
\* The step failAt raises and skips what follows; neither field is reset.
Disconnect ==
    /\ cpc = "idle"
    /\ hpc = "idle"
    /\ \E failAt \in {"none", "browser", "playwright"} :
         /\ failAt = "browser" => client_browser # "none"
         /\ failAt = "playwright" => client_playwright # "none"
         /\ client_browser' =
               IF client_browser # "none" /\ failAt # "browser"
               THEN "closed"
               ELSE client_browser
         /\ client_playwright' =
               IF client_playwright # "none" /\ failAt = "none"
               THEN "stopped"
               ELSE client_playwright
    /\ disc_result' = "returned"
    /\ before_disc' = <<client_browser, client_playwright>>
    /\ consec_disc' = Min(consec_disc + 1, 2)
    /\ UNCHANGED <<max_retries, attempt, conn_result, conn_value, attempts_made,
                   succeeded, delays, cpc>>
    /\ UNCHANGED hcVars
    /\ UNCHANGED outsideClient

\* health_check is called (lines 91-93): "if not self.browser: await
\* self.connect()".
HealthCheckCall ==
    /\ cpc = "idle"
    /\ hpc = "idle"
    /\ hc_result' = "none"
    /\ hc_context' = "none"
    /\ hc_page' = "none"
    /\ hc_failed' = "none"
    /\ IF client_browser = "none"
       THEN /\ hpc' = "connect"
            /\ ConnectEnter
       ELSE /\ hpc' = "probe"
            /\ consec_disc' = 0
            /\ UNCHANGED <<cpc, max_retries, attempt, client_playwright,
                           client_browser, conn_result, conn_value, attempts_made,
                           succeeded, delays, disc_result, before_disc>>
    /\ UNCHANGED outsideClient

\* The steps of the probe in the order of lines 96-103.
ProbeSteps == <<"new_context", "new_page", "goto", "title", "page_close",
                "context_close">>

\* The steps that ran to their end when step failAt raised ("none": all).
StepsDone(failAt) ==
    IF failAt = "none"
    THEN {ProbeSteps[i] : i \in 1..Len(ProbeSteps)}
    ELSE {ProbeSteps[i] : i \in 1..((CHOOSE j \in 1..Len(ProbeSteps) :
                                        ProbeSteps[j] = failAt) - 1)}

\* What health_check's handler makes of an exception (lines 108-110).
HandleHealthError_Propagates == "raised"

HandleHealthError == "false"

\* health_check after its connect, lines 93-110: a connect that raised, a
\* connect that returned without a session (self.browser is None) and a
\* closed session all raise before any page exists; then each step of the
\* probe may raise.  The handler turns every exception into False.
HealthCheckProbe ==
    /\ hpc \in {"connect", "probe"}
    /\ cpc = "idle"
    /\ hpc' = "idle"
    /\ \E failAt \in {"connect", "none"} \cup {ProbeSteps[i] : i \in 1..Len(ProbeSteps)} :
         /\ failAt = "connect" <=> (hpc = "connect" /\ conn_result = "raised")
         /\ (failAt # "connect" /\ client_browser # "open") => failAt = "new_context"
         /\ hc_failed' = failAt
         /\ hc_result' = IF failAt = "none" THEN "true" ELSE HandleHealthError
         /\ hc_context' = IF failAt = "connect" THEN "none"
                          ELSE IF "context_close" \in StepsDone(failAt) THEN "closed"
                          ELSE IF "new_context" \in StepsDone(failAt) THEN "open"
                          ELSE "none"
         /\ hc_page' = IF failAt = "connect" THEN "none"
                       ELSE IF "page_close" \in StepsDone(failAt) THEN "closed"
                       ELSE IF "new_page" \in StepsDone(failAt) THEN "open"
                       ELSE "none"
    /\ UNCHANGED <<cpc, max_retries, attempt, client_playwright, client_browser,
                   conn_result, conn_value, attempts_made, succeeded, delays,
                   disc_result, consec_disc, before_disc>>
    /\ UNCHANGED outsideClient

-----------------------------------------------------------------------------
\* save_results, LocalFileStorage and GoogleSheetsStorage.

URLs == {"u1", "u2"}

\* The lists save_results is given: records identified by their url.
Batches == UNION { [1..n -> [url : URLs]] : n \in 0..MaxBatch }

Range(f) == { f[i] : i \in DOMAIN f }

\* _create_headers: the header row (its URL column).
HeaderRow == <<"URL">>

\* GoogleSheetsStorage.save, lines 100-111: the row of an item (its URL column).
RowOf(item) == <<item.url>>

\* GoogleSheetsStorage.load, lines 194-228: fewer than two rows are no data;
\* each later row becomes an item keyed by the header row's names.
Load(values) ==
    IF Len(values) < 2
    THEN <<>>
    ELSE LET headers == values[1]
         IN  [i \in 1..(Len(values) - 1) |->
                [url |-> IF headers[1] = "URL" THEN values[i + 1][1] ELSE None]]

\* GoogleSheetsStorage.check_duplicates: the urls that load already holds.
CheckDuplicates(urls, values) ==
    LET existing_data == Load(values)
        existing_urls == { existing_data[i].url : i \in DOMAIN existing_data } \ {None}
        dup(u) == u \in existing_urls
    IN  SelectSeq(urls, dup)

\* GoogleSheetsStorage.save on sheet sh: whether it returned True, and the
\* sheet after it.  No service returns False at once; an unreadable or empty
\* sheet gets the header row written to row 1; then the rows are appended.
\* A failing header update or append is caught and returns False.
SheetsSave(sh, data, service, fetch_ok, header_ok, append_ok) ==
    LET existing_data == IF fetch_ok THEN sh ELSE <<>>
        need_header == existing_data = <<>>
        with_header == IF ~need_header THEN sh
                       ELSE IF sh = <<>> THEN <<HeaderRow>>
                       ELSE [sh EXCEPT ![1] = HeaderRow]
        rows == [i \in 1..Len(data) |-> RowOf(data[i])]
    IN  IF ~service THEN [ok |-> FALSE, sheet |-> sh]
        ELSE IF need_header /\ ~header_ok THEN [ok |-> FALSE, sheet |-> sh]
        ELSE IF ~append_ok THEN [ok |-> FALSE, sheet |-> with_header]
        ELSE [ok |-> TRUE, sheet |-> with_header \o rows]

\* No call made yet; the remote sheet is empty.
PersistIdle ==
    /\ ppc = "idle"
    /\ sv_results = <<>>
    /\ use_local = FALSE
    /\ use_sheets = FALSE
    /\ success_count = 0
    /\ sheet = <<>>
    /\ json_outcome = "skipped"
    /\ csv_outcome = "skipped"
    /\ remote_outcome = "skipped"
    /\ persists = 0
    /\ cur_arg = <<>>
    /\ cur_clean = FALSE
    /\ appended = 0
    /\ prev_arg = <<>>
    /\ prev_clean = FALSE
    /\ fetch_failed = FALSE

\* save_results is called (lines 42-55): nothing to save returns at once.
SaveResultsCall ==
    /\ ppc = "idle"
    /\ persists < MaxPersists
    /\ persists' = persists + 1
    /\ \E data \in Batches :
         /\ sv_results' = data
         /\ cur_arg' = data
         /\ ppc' = IF data = <<>> THEN "idle" ELSE "local"
    /\ use_local' \in BOOLEAN
    /\ use_sheets' \in BOOLEAN
    /\ success_count' = 0
    /\ json_outcome' = "skipped"
    /\ csv_outcome' = "skipped"
    /\ remote_outcome' = "skipped"
    /\ cur_clean' = FALSE
    /\ appended' = 0
    /\ prev_arg' = cur_arg
    /\ prev_clean' = cur_clean
    /\ fetch_failed' = FALSE
    /\ UNCHANGED sheet
    /\ UNCHANGED outsidePersist

Saved(o) == IF o = "saved" THEN 1 ELSE 0

\* SaveLocal with the try/except of lines 59-74 left out: an exception of a
\* local backend ends save_results.
SaveLocal_Propagates ==
    /\ ppc = "local"
    /\ IF use_local
       THEN \E j \in {"saved", "failed", "raised"} :
            \E c \in {"saved", "failed", "raised", "skipped"} :
              /\ (j = "raised") <=> (c = "skipped")
              /\ json_outcome' = j
              /\ csv_outcome' = c
              /\ success_count' = success_count + Saved(j) + Saved(c)
              /\ ppc' = IF "raised" \in {j, c} THEN "idle" ELSE "sheets"
       ELSE /\ ppc' = "sheets"
            /\ UNCHANGED <<json_outcome, csv_outcome, success_count>>
    /\ UNCHANGED <<sv_results, use_local, use_sheets, sheet, remote_outcome,
                   persists, cur_arg, cur_clean, appended, prev_arg, prev_clean,
                   fetch_failed>>
    /\ UNCHANGED outsidePersist

\* Lines 58-74: the JSON save, then the CSV save, in one try block.  A save
\* returns True, or False after an error of its own (LocalFileStorage.save
\* catches it); constructing a LocalFileStorage (mkdir) may raise, which skips
\* the rest of the block.
SaveLocal ==
    /\ ppc = "local"
    /\ IF use_local
       THEN \E j \in {"saved", "failed", "raised"} :
            \E c \in {"saved", "failed", "raised", "skipped"} :
              /\ (j = "raised") <=> (c = "skipped")
              /\ json_outcome' = j
              /\ csv_outcome' = c
              /\ success_count' = success_count + Saved(j) + Saved(c)
       ELSE UNCHANGED <<json_outcome, csv_outcome, success_count>>
    /\ ppc' = "sheets"
    /\ UNCHANGED <<sv_results, use_local, use_sheets, sheet, remote_outcome,
                   persists, cur_arg, cur_clean, appended, prev_arg, prev_clean,
                   fetch_failed>>
    /\ UNCHANGED outsidePersist

\* Lines 77-96: check_duplicates, the exclusion of the duplicates, then save
\* of what is left.  Each remote call may fail: the service may be missing
\* (no credentials), either read of the sheet may fail (_get_sheet_data then
\* returns []), the header update or the append may fail (save returns
\* False); an exception that escapes the calls is caught at line 94.
SaveSheets ==
    /\ ppc = "sheets"
    /\ \/ /\ ~use_sheets
          /\ UNCHANGED <<sv_results, success_count, sheet, remote_outcome,
                         cur_clean, appended, fetch_failed>>
       \/ /\ use_sheets
          /\ remote_outcome' = "raised"
          /\ UNCHANGED <<sv_results, success_count, sheet, cur_clean, appended,
                         fetch_failed>>
       \/ /\ use_sheets
          /\ \E service, read1, read2, header_ok, append_ok \in BOOLEAN :
               LET urls == [i \in DOMAIN sv_results |-> sv_results[i].url]
                   duplicates ==
                       CheckDuplicates(urls, IF service /\ read1 THEN sheet ELSE <<>>)
                   fresh(r) == r.url \notin Range(duplicates)
                   kept == IF duplicates # <<>>
                           THEN SelectSeq(sv_results, fresh)
                           ELSE sv_results
                   saved == SheetsSave(sheet, kept, service, read2, header_ok,
                                       append_ok)
               IN  /\ sv_results' = kept
                   /\ cur_clean' = (service /\ read1 /\ read2 /\ header_ok /\ append_ok)
                   /\ fetch_failed' = ~(service /\ read1)
                   /\ IF kept = <<>>
                      THEN /\ remote_outcome' = "nothing"
                           /\ UNCHANGED <<sheet, success_count, appended>>
                      ELSE /\ sheet' = saved.sheet
                           /\ remote_outcome' = IF saved.ok THEN "saved" ELSE "failed"
                           /\ success_count' = success_count + (IF saved.ok THEN 1 ELSE 0)
                           /\ appended' = IF saved.ok THEN Len(kept) ELSE 0
    /\ ppc' = "summary"
    /\ UNCHANGED <<use_local, use_sheets, json_outcome, csv_outcome, persists,
                   cur_arg, prev_arg, prev_clean>>
    /\ UNCHANGED outsidePersist

\* Lines 98-102: the summary is logged and save_results returns.
Summary ==
    /\ ppc = "summary"
    /\ ppc' = "idle"
    /\ fetch_failed' = FALSE
    /\ UNCHANGED <<sv_results, use_local, use_sheets, success_count, sheet,
                   json_outcome, csv_outcome, remote_outcome, persists, cur_arg,
                   cur_clean, appended, prev_arg, prev_clean>>
    /\ UNCHANGED outsidePersist

-----------------------------------------------------------------------------
\* LocalFileStorage with format "json".

\* The file as the file system holds it.
NoFile == [kind |-> "absent", items |-> <<>>]
PartialFile == [kind |-> "partial", items |-> <<>>]

\* json.dump of a list of records: the document written to the file.
JsonDump(data) == [kind |-> "array", items |-> data]

\* The lists save is given: records, some already carrying saved_at.
LocalItems ==
    {[id |-> i] : i \in 1..MaxLocalIds} \cup {[id |-> 1, saved_at |-> "earlier"]}

LocalBatches == UNION { [1..n -> LocalItems] : n \in 0..MaxLocalBatch }

\* Lines 46-48 with the stamping left out.
Stamp_Nothing(item) == item

\* Lines 46-48: "if 'saved_at' not in item: item['saved_at'] = now".
Stamp(item) ==
    IF "saved_at" \in DOMAIN item
    THEN item
    ELSE [id |-> item.id, saved_at |-> "now"]

\* load and _load_json (lines 117-146) on file f: no file is []; a file that
\* cannot be opened or read raises inside load, which returns []; a file that
\* is not JSON raises JSONDecodeError, which returns []; else the array.
JsonLoad(f, readable) ==
    IF f.kind = "absent" THEN <<>>
    ELSE IF ~readable THEN <<>>
    ELSE IF f.kind # "array" THEN <<>>
    ELSE f.items

\* A backend on a fresh path: no file yet.
LocalFresh ==
    /\ file = NoFile
    /\ save_ret = "none"
    /\ loaded = <<>>
    /\ saves = 0
    /\ failed_saves = 0
    /\ saved_log = <<>>

\* save(data) with format json (lines 34-80): the items get their saved_at,
\* _save_json loads what the file holds, extends it by data and rewrites the
\* file.  open(..., 'w') may raise (the file stays as it is); json.dump may
\* raise after the file was truncated (a partial file is left); either
\* exception is re-raised by _save_json and turned into False by save.
SaveJson(data, readable, write) ==
    LET stamped == [i \in 1..Len(data) |-> Stamp(data[i])]
        existing_data == JsonLoad(file, readable) \o stamped
    IN  /\ saves' = saves + 1
        /\ CASE write = "ok" ->
                   /\ file' = JsonDump(existing_data)
                   /\ save_ret' = "true"
                   /\ saved_log' = saved_log \o stamped
                   /\ UNCHANGED failed_saves
             [] write = "open_raises" ->
                   /\ save_ret' = "false"
                   /\ failed_saves' = failed_saves + 1
                   /\ UNCHANGED <<file, saved_log>>
             [] write = "dump_raises" ->
                   /\ file' = PartialFile
                   /\ save_ret' = "false"
                   /\ failed_saves' = failed_saves + 1
                   /\ UNCHANGED saved_log
        /\ UNCHANGED loaded

\* A caller saves a list.
LocalSave ==
    /\ saves < MaxSaves
    /\ \E data \in LocalBatches :
       \E readable \in BOOLEAN :
       \E write \in {"ok", "open_raises", "dump_raises"} :
         /\ ~readable => file.kind # "absent"
         /\ SaveJson(data, readable, write)
    /\ UNCHANGED outsideLocal

\* A caller loads the file.
LocalLoad ==
    /\ \E readable \in BOOLEAN :
         /\ ~readable => file.kind # "absent"
         /\ loaded' = JsonLoad(file, readable)
    /\ UNCHANGED <<file, save_ret, saves, failed_saves, saved_log>>
    /\ UNCHANGED outsideLocal

\* clear (lines 167-197): an existing file is rewritten as the empty array;
\* an open that raises is caught and leaves the file.
LocalClear ==
    /\ saves > 0
    /\ \/ /\ file' = IF file.kind = "absent" THEN file ELSE JsonDump(<<>>)
          /\ saves' = 0
          /\ failed_saves' = 0
          /\ saved_log' = <<>>
       \/ /\ file.kind # "absent"
          /\ UNCHANGED <<file, saves, failed_saves, saved_log>>
    /\ UNCHANGED <<save_ret, loaded>>
    /\ UNCHANGED outsideLocal

-----------------------------------------------------------------------------
\* YoutubeScraper._parse_views_count.  A text is a sequence of characters;
\* the characters outside ASCII are written by their code points: U+5343,
\* U+4E07 and U+5104 are the units thousand, ten thousand and hundred
\* million, U+FF0C is the full-width comma.  The integer returned is written
\* as the sequence of its decimal digits, the most significant first: Python
\* integers have no width, and the values go beyond 32 bits.

DigitChars == <<"0", "1", "2", "3", "4", "5", "6", "7", "8", "9">>
DigitSet == {DigitChars[i] : i \in 1..Len(DigitChars)}
DigitValue(c) == (CHOOSE i \in 1..Len(DigitChars) : DigitChars[i] = c) - 1

\* Lines 229-239: the multipliers in the iteration order of the dict.
multipliers ==
    << [unit |-> "K", multiplier |-> 1000],
       [unit |-> "k", multiplier |-> 1000],
       [unit |-> "U+5343", multiplier |-> 1000],
       [unit |-> "M", multiplier |-> 1000000],
       [unit |-> "m", multiplier |-> 1000000],
       [unit |-> "U+4E07", multiplier |-> 10000],
       [unit |-> "B", multiplier |-> 1000000000],
       [unit |-> "b", multiplier |-> 1000000000],
       [unit |-> "U+5104", multiplier |-> 100000000] >>

\* ---- Arithmetic on natural numbers of any size.  A number is the sequence
\* of its limbs in base LimbBase, the most significant first.

LimbBase == 10000
LimbDigits == 4
Chunk == 32768            \* 2^ChunkBits: limb * Chunk stays a machine integer
ChunkBits == 15

RECURSIVE StripZeros(_)
StripZeros(x) ==
    IF Len(x) > 1 /\ Head(x) = 0 THEN StripZeros(Tail(x)) ELSE x

ZerosSeq(n) == [i \in 1..n |-> 0]

RECURSIVE Pow(_, _)
Pow(b, n) == IF n = 0 THEN 1 ELSE b * Pow(b, n - 1)

\* The number of zeros of a power of ten.
RECURSIVE Log10(_)
Log10(n) == IF n < 10 THEN 0 ELSE 1 + Log10(n \div 10)

\* x * c + carry for c and carry up to Chunk.
RECURSIVE MulLimbs(_, _, _)
MulLimbs(x, c, carry) ==
    IF x = <<>>
    THEN IF carry < LimbBase THEN <<carry>>
         ELSE <<carry \div LimbBase, carry % LimbBase>>
    ELSE LET v == x[Len(x)] * c + carry
         IN  Append(MulLimbs(SubSeq(x, 1, Len(x) - 1), c, v \div LimbBase),
                    v % LimbBase)

Mul(x, c) == StripZeros(MulLimbs(x, c, 0))

\* Long division of x by d, for d up to Chunk: quotient and remainder.
RECURSIVE DivLimbs(_, _, _, _)
DivLimbs(x, d, q, r) ==
    IF x = <<>>
    THEN [quot |-> StripZeros(IF q = <<>> THEN <<0>> ELSE q), rem |-> r]
    ELSE LET cur == r * LimbBase + Head(x)
         IN  DivLimbs(Tail(x), d, Append(q, cur \div d), cur % d)

Div(x, d) == DivLimbs(x, d, <<>>, 0)

\* x < y for numbers without leading zeros.
Less(x, y) ==
    \/ Len(x) < Len(y)
    \/ /\ Len(x) = Len(y)
       /\ \E i \in 1..Len(x) :
            /\ x[i] < y[i]
            /\ \A j \in 1..(i - 1) : x[j] = y[j]

IsOdd(x) == x[Len(x)] % 2 = 1

\* x * 2^k
RECURSIVE MulPow2(_, _)
MulPow2(x, k) ==
    IF k >= ChunkBits THEN MulPow2(Mul(x, Chunk), k - ChunkBits)
    ELSE Mul(x, Pow(2, k))

\* x * 10^k
MulPow10(x, k) ==
    IF x = <<0>> THEN x
    ELSE Mul(x, Pow(10, k % LimbDigits)) \o ZerosSeq(k \div LimbDigits)

\* floor(x / b^k) for b^n up to Chunk, n at a time, and whether the division
\* left a remainder (inexact, or already so before).
RECURSIVE DivPow(_, _, _, _, _)
DivPow(x, b, n, k, inexact) ==
    IF k = 0 THEN [quot |-> x, inexact |-> inexact]
    ELSE LET step == IF k >= n THEN n ELSE k
             d == Div(x, Pow(b, step))
         IN  DivPow(d.quot, b, n, k - step, inexact \/ d.rem # 0)

DivPow2(x, k, inexact) == DivPow(x, 2, ChunkBits, k, inexact)
DivPow10(x, k) == DivPow(x, 10, LimbDigits, k, FALSE)

\* The limbs of a number written in decimal digits, and back.
RECURSIVE ToLimbs(_)
ToLimbs(digits) ==
    IF Len(digits) <= LimbDigits
    THEN LET n == Len(digits)
         IN  << IF n = 0 THEN 0
                ELSE IF n = 1 THEN digits[1]
                ELSE IF n = 2 THEN digits[1] * 10 + digits[2]
                ELSE IF n = 3 THEN digits[1] * 100 + digits[2] * 10 + digits[3]
                ELSE digits[1] * 1000 + digits[2] * 100 + digits[3] * 10 + digits[4] >>
    ELSE LET cut == Len(digits) - LimbDigits
         IN  ToLimbs(SubSeq(digits, 1, cut))
               \o ToLimbs(SubSeq(digits, cut + 1, Len(digits)))

LimbToDigits(l) == << l \div 1000, (l \div 100) % 10, (l \div 10) % 10, l % 10 >>

RECURSIVE ToDigits(_)
ToDigits(x) ==
    IF x = <<>> THEN <<>> ELSE LimbToDigits(Head(x)) \o ToDigits(Tail(x))

\* ---- IEEE 754 binary64 as Python's float: a value is mant * 2^exp with
\* mant < 2^53.

MantissaBits == 53

TwoTo(k) == MulPow2(<<1>>, k)

FloatZero == [mant |-> <<0>>, exp |-> 0]

\* x * 2^exp (and a little more when inexact) rounded to the nearest float,
\* ties to even: x is halved until it is below 2^54, the last bit decides.
RECURSIVE RoundToFloat(_, _, _)
RoundToFloat(x, inexact, exp) ==
    IF ~Less(x, TwoTo(MantissaBits + 1 + ChunkBits))
    THEN LET d == DivPow2(x, ChunkBits, inexact)
         IN  RoundToFloat(d.quot, d.inexact, exp + ChunkBits)
    ELSE IF ~Less(x, TwoTo(MantissaBits + 1))
    THEN LET d == DivPow2(x, 1, inexact)
         IN  RoundToFloat(d.quot, d.inexact, exp + 1)
    ELSE IF Less(x, TwoTo(MantissaBits))
    THEN [mant |-> x, exp |-> exp]
    ELSE LET d == Div(x, 2)
             up == d.rem = 1 /\ (inexact \/ IsOdd(d.quot))
             mant == IF up THEN StripZeros(MulLimbs(d.quot, 1, 1)) ELSE d.quot
         IN  IF Less(mant, TwoTo(MantissaBits))
             THEN [mant |-> mant, exp |-> exp + 1]
             ELSE [mant |-> Div(mant, 2).quot, exp |-> exp + 2]

\* x * 2^k for the least k that lifts floor(x / 10^frac) to 2^53 or more.
RECURSIVE Scale(_, _, _)
Scale(x, frac, k) ==
    IF Less(DivPow10(MulPow2(x, ChunkBits), frac).quot, TwoTo(MantissaBits))
    THEN Scale(MulPow2(x, ChunkBits), frac, k + ChunkBits)
    ELSE IF Less(DivPow10(x, frac).quot, TwoTo(MantissaBits))
    THEN Scale(Mul(x, 2), frac, k + 1)
    ELSE [num |-> x, k |-> k]

\* float(s) for s a run of at most 15 digits with at most one point: digits
\* are the digits of s and frac the number of them after the point.
FloatOf(digits, frac) ==
    LET n == StripZeros(ToLimbs(digits))
        s == Scale(n, frac, 0)
        d == DivPow10(s.num, frac)
    IN  IF n = <<0>> THEN FloatZero
        ELSE IF frac = 0 THEN [mant |-> n, exp |-> 0]
        ELSE RoundToFloat(d.quot, d.inexact, -s.k)

\* number * multiplier for a multiplier that is a power of ten.
FloatTimes(number, multiplier) ==
    RoundToFloat(MulPow10(number.mant, Log10(multiplier)), FALSE, number.exp)

\* int(x) for a float x >= 0: the digits of its integer part.
IntOf(x) ==
    LET n == IF x.exp >= 0
             THEN MulPow2(x.mant, x.exp)
             ELSE DivPow2(x.mant, -x.exp, FALSE).quot
    IN  StripZeros(ToDigits(n))

\* ---- The text operations.

\* str.replace(',', '').replace(U+FF0C, '')
RemoveCommas(text) ==
    LET keep(c) == c \notin {",", "U+FF0C"}
    IN  SelectSeq(text, keep)

InRun(c) == c \in DigitSet \cup {"."}

\* re.search(r'([\d\.]+)', text).group(1): the first maximal run of digits
\* and points, or <<>> when there is no match.
FirstRun(text) ==
    IF \A i \in 1..Len(text) : ~InRun(text[i])
    THEN <<>>
    ELSE LET start == CHOOSE i \in 1..Len(text) :
                         InRun(text[i]) /\ \A j \in 1..(i - 1) : ~InRun(text[j])
             stop  == CHOOSE i \in start..Len(text) :
                         /\ \A j \in start..i : InRun(text[j])
                         /\ i = Len(text) \/ ~InRun(text[i + 1])
         IN  SubSeq(text, start, stop)

\* float(run) accepts digits with at most one point and at least one digit.
IsFloatLiteral(run) ==
    /\ \E i \in 1..Len(run) : run[i] \in DigitSet
    /\ Cardinality({i \in 1..Len(run) : run[i] = "."}) <= 1

\* float(run) for such a run.
ParseFloat(run) ==
    LET isDigit(c) == c \in DigitSet
        ds == SelectSeq(run, isDigit)
        point == IF \E i \in 1..Len(run) : run[i] = "."
                 THEN CHOOSE i \in 1..Len(run) : run[i] = "."
                 ELSE Len(run) + 1
        frac == IF point > Len(run) THEN 0 ELSE Len(run) - point
    IN  FloatOf([i \in 1..Len(ds) |-> DigitValue(ds[i])], frac)

Raised == [raised |-> TRUE, value |-> <<>>]
Returned(v) == [raised |-> FALSE, value |-> v]

\* Lines 225-251, the body of the try block: the first unit of the table
\* found anywhere in the text decides; re.search(...) is None when the text
\* has no digit or point, and .group then raises; float raises on a run that
\* is no literal.
ParseBody(chars) ==
    LET text == RemoveCommas(chars)
        found == {k \in 1..Len(multipliers) :
                     \E i \in 1..Len(text) : text[i] = multipliers[k].unit}
        run == FirstRun(text)
    IN  IF found # {}
        THEN LET first == CHOOSE k \in found : \A j \in found : k <= j
             IN  IF run = <<>> \/ ~IsFloatLiteral(run)
                 THEN Raised
                 ELSE Returned(IntOf(FloatTimes(ParseFloat(run),
                                               multipliers[first].multiplier)))
        ELSE IF run = <<>>
        THEN Returned(<<0>>)
        ELSE IF ~IsFloatLiteral(run)
        THEN Raised
        ELSE Returned(IntOf(ParseFloat(run)))

\* _parse_views_count without the handler of lines 253-254.
OnParseError_Propagates(r) == r

\* Lines 253-254: "except Exception: return 0".
OnParseError(r) == IF r.raised THEN Returned(<<0>>) ELSE r

\* The argument of _parse_views_count: None, or a text.
NoneText == [none |-> TRUE, chars |-> <<>>]
Text(chars) == [none |-> FALSE, chars |-> chars]

\* _parse_views_count: None and the empty text give 0 at once (lines 221-222).
ParseViewsCount(arg) ==
    IF arg.none \/ arg.chars = <<>>
    THEN Returned(<<0>>)
    ELSE OnParseError(ParseBody(arg.chars))

\* The characters of the texts tried at every length up to MaxTextLen.
TextChars == {"1", "4", ".", ",", "K", "M", "x"}

\* Texts of the docstring (line 216) and of counters as YouTube shows them.
SampleTexts ==
    { <<"1", ".", "2", "M">>,
      <<"1", ",", "2", "3", "4">>,
      <<"1", ".", "2", "U+4E07">>,
      <<"3", "U+4E07">>,
      <<"2", "U+5104">>,
      <<"5", "0", "0">>,
      <<"4", ".", "1", "M">>,
      <<"8", ".", "2", "B">>,
      <<"1", "U+FF0C", "5", "k">>,
      <<"2", ".", "3", "U+5104">>,
      <<"9", "U+5343">>,
      <<"1", "2", ".", "5", "m">>,
      <<"7", "b">> }

ParseInputs ==
    {NoneText}
      \cup {Text(t) : t \in UNION {[1..n -> TextChars] : n \in 0..MaxTextLen}}
      \cup {Text(t) : t \in SampleTexts}

\* No call made yet.
NoResult == Returned(<<>>)

ParseFresh ==
    /\ vpc = "input"
    /\ views_count = NoResult
    /\ views_again = NoResult

\* The parser part at rest.
ParseIdle == ParseFresh /\ views_text = NoneText

\* views_count = self._parse_views_count(views_text)
ParseCall ==
    /\ vpc = "input"
    /\ views_count' = ParseViewsCount(views_text)
    /\ vpc' = "parsed"
    /\ UNCHANGED <<views_text, views_again>>
    /\ UNCHANGED outsideParse

\* The same call made a second time on the same text.
ParseAgain ==
    /\ vpc = "parsed"
    /\ views_again' = ParseViewsCount(views_text)
    /\ vpc' = "again"
    /\ UNCHANGED <<views_text, views_count>>
    /\ UNCHANGED outsideParse

-----------------------------------------------------------------------------
\* test_local.py: scrape with max_results=5, the save of what it returned to
\* a LocalFileStorage in format json, then close; run against a stub backend
\* that renders well-formed elements once and never fails.

WellFormed(n) == [i \in 1..n |-> [id |-> i, kind |-> "ok"]]

\* page.goto and wait_for_selector against the stub: n elements are rendered.
StubNavigate ==
    /\ pc = "goto"
    /\ \E n \in 1..MaxRendered : dom' = WellFormed(n)
    /\ prev_count' = 0
    /\ scroll_attempts' = 0
    /\ pc' = "while"
    /\ UNCHANGED <<max_results, video_elements, idx, results, returned, outcome,
                   res, handed, handed_again, cycle_start_len, stagnant_run>>
    /\ UNCHANGED outsideScrape

\* query_selector_all against the stub: the DOM never grows.
StubQuery ==
    /\ pc = "query"
    /\ video_elements' = dom
    /\ idx' = prev_count + 1
    /\ cycle_start_len' = Len(results)
    /\ pc' = "for"
    /\ UNCHANGED <<max_results, dom, results, prev_count, scroll_attempts,
                   returned, outcome, res, handed, handed_again, stagnant_run>>
    /\ UNCHANGED outsideScrape

\* Lines 23-34 of test_local.py: a non-empty result is saved to a
\* LocalFileStorage on data/test_results.json.
TestSave ==
    /\ pc = "finally"
    /\ outcome = "ok"
    /\ returned # <<>>
    /\ saves = 0
    /\ \E readable \in BOOLEAN :
       \E write \in {"ok", "open_raises", "dump_raises"} :
         /\ ~readable => file.kind # "absent"
         /\ SaveJson(returned, readable, write)
    /\ UNCHANGED outsideLocal

\* Lines 41-42 of test_local.py: the finally closes the scraper, after the
\* save when there was something to save.
TestClose ==
    /\ (outcome = "ok" /\ returned # <<>>) => saves = 1
    /\ Close

-----------------------------------------------------------------------------
\* The specifications: one per part, the other parts at rest.

InitScrape == ScrapeInit /\ ClientIdle /\ PersistIdle /\ LocalFresh /\ ParseIdle

NextScrape ==
    \/ InitBrowser
    \/ Navigate
    \/ WhileTest
    \/ QueryElements
    \/ ForStep
    \/ ScrollOrReset
    \/ Scroll
    \/ Return
    \/ Cancel
    \/ Close
    \/ MainAfterScrape

SpecScrape == InitScrape /\ [][NextScrape]_vars

\* Every step of a run is taken once it can be: the event loop runs the one
\* task of the scrape until it ends.
FairScrape == SpecScrape /\ WF_vars(NextScrape)

InitClient == ClientInit /\ ScrapeIdle /\ PersistIdle /\ LocalFresh /\ ParseIdle

NextClient ==
    \/ ConnectCall
    \/ ConnectAttempt
    \/ ConnectRetry
    \/ Disconnect
    \/ HealthCheckCall
    \/ HealthCheckProbe

SpecClient == InitClient /\ [][NextClient]_vars

InitPersist == PersistIdle /\ ScrapeIdle /\ ClientIdle /\ LocalFresh /\ ParseIdle

NextPersist ==
    \/ SaveResultsCall
    \/ SaveLocal
    \/ SaveSheets
    \/ Summary

SpecPersist == InitPersist /\ [][NextPersist]_vars

InitLocal == LocalFresh /\ ScrapeIdle /\ ClientIdle /\ PersistIdle /\ ParseIdle

NextLocal ==
    \/ LocalSave
    \/ LocalLoad
    \/ LocalClear

SpecLocal == InitLocal /\ [][NextLocal]_vars

InitLocalTest ==
    /\ ScrapeFresh
    /\ max_results = test_max_results
    /\ ClientIdle
    /\ PersistIdle
    /\ LocalFresh
    /\ ParseIdle

NextLocalTest ==
    \/ InitBrowser
    \/ StubNavigate
    \/ WhileTest
    \/ StubQuery
    \/ ForStep
    \/ ScrollOrReset
    \/ Scroll
    \/ Return
    \/ TestSave
    \/ TestClose

SpecLocalTest == InitLocalTest /\ [][NextLocalTest]_vars

InitParse ==
    /\ ParseFresh
    /\ views_text \in ParseInputs
    /\ ScrapeIdle
    /\ ClientIdle
    /\ PersistIdle
    /\ LocalFresh

NextParse ==
    \/ ParseCall
    \/ ParseAgain

SpecParse == InitParse /\ [][NextParse]_vars

-----------------------------------------------------------------------------
\* Properties of the scrape run.

\* The records of the extractable elements of a DOM, in DOM order.
Extractable(d) ==
    LET keep(e) == ExtractVideoData(e) # NoRecord
        kept == SelectSeq(d, keep)
    IN  [i \in 1..Len(kept) |-> ExtractVideoData(kept[i])]

\* C1: whatever the target count and however the DOM grows, the scrape loop
\* ends (the run reaches its end), and no more than max_scroll_attempts
\* consecutive cycles add no record before it does.
C1_LoopTerminates ==
    /\ [](stagnant_run <= max_scroll_attempts)
    /\ <>(pc = "done")

\* C1's case: the loop gave up after max_scroll_attempts stagnant cycles with
\* the target not reached.
C1_Witness ==
    /\ pc = "return"
    /\ stagnant_run = max_scroll_attempts
    /\ scroll_attempts = max_scroll_attempts
    /\ Len(results) < max_results

\* C2: the harvested records never outnumber the target count, their number
\* never decreases from one step to the next, and the returned sequence is
\* no longer than the target count.
C2_HarvestBounded ==
    /\ [](Len(results) <= max_results /\ Len(returned) <= max_results)
    /\ [][Len(results') >= Len(results)]_vars

\* C2's case: a run that returned a full harvest while the DOM held more
\* extractable elements than the target count.
C2_Witness ==
    /\ pc = "done"
    /\ outcome = "ok"
    /\ max_results > 0
    /\ Len(returned) = max_results
    /\ Len(Extractable(dom)) > max_results

\* C3 (as claimed): what scrape returns is a prefix of the records of the
\* extractable elements in DOM order, so no element missing a field is in it,
\* no element is in it twice and the DOM order is kept.
C3_ReturnedIsPrefix ==
    outcome = "ok" =>
        /\ Len(returned) <= Len(Extractable(dom))
        /\ \A i \in 1..Len(returned) : returned[i] = Extractable(dom)[i]

\* C4 (as claimed): when a cycle queries the DOM, prev_count is the number of
\* elements handed to _extract_video_data so far, and no element is ever
\* handed to it a second time.
C4_NoReExtraction ==
    /\ handed_again = {}
    /\ pc = "query" => prev_count = Cardinality(handed)

\* C10 (as claimed): once teardown has run, nothing acquired is still open.
C10_AllReleased ==
    pc = "done" => \A r \in ResourceSet : res[r] # "open"

\* C18: a cycle issues the scroll exactly if it added no record, and the
\* counter then goes up by exactly one; a cycle that added a record issues no
\* scroll and resets the counter to zero.
C18_ScrollIffStagnant ==
    /\ [](pc = "scroll" => Len(results) = cycle_start_len)
    /\ [][(pc = "after" /\ Len(results) = cycle_start_len) => pc' = "scroll"]_vars
    /\ [][(pc = "scroll" /\ pc' = "while") =>
            scroll_attempts' = scroll_attempts + 1]_vars
    /\ [][(pc = "after" /\ Len(results) > cycle_start_len) =>
            (pc' = "while" /\ scroll_attempts' = 0)]_vars

\* C18's case: some cycle added a record (no scroll, the counter reset) and
\* the last cycle added none (one scroll, the counter at one); the loop goes on.
C18_Witness ==
    /\ pc = "while"
    /\ scroll_attempts = 1
    /\ stagnant_run = 1
    /\ Len(results) >= 1
    /\ Len(results) < max_results

\* The for loop is about to extract an element whose extraction raises.
AtRaisingElement ==
    /\ pc = "for"
    /\ idx <= Len(video_elements)
    /\ Len(results) < max_results
    /\ video_elements[idx].kind = "raises"

\* C12: an error raised while one element is extracted makes that element
\* absent and nothing more: unless the run is interrupted, the step leaves
\* the run in the same for loop at the next element of the same slice, with
\* the records harvested so far kept and no error outcome.
C12_ExtractionErrorIsLocal ==
    [][AtRaisingElement =>
          \/ outcome' = "cancelled"
          \/ /\ pc' = "for"
             /\ video_elements' = video_elements
             /\ idx' = idx + 1
             /\ results' = results
             /\ outcome' = "none"]_vars

\* C12's case: in the current slice an element whose extraction raised lies
\* between two harvested elements.
C12_Witness ==
    /\ pc = "for"
    /\ \E h, i, j \in 1..Len(video_elements) :
         /\ prev_count < h /\ h < i /\ i < j /\ j < idx
         /\ video_elements[i].kind = "raises"
         /\ [id |-> h] \in Range(results)
         /\ [id |-> j] \in Range(results)

\* C16 (as claimed): in remote-automation mode a failing session
\* establishment is retried, and it ends the run only once max_retries
\* attempts have failed.
C16_SessionRetried ==
    (outcome = "error" /\ cdp_failures >= 1) => cdp_failures = max_retries

\* C11 (as claimed): when an automation call fails after at least one record
\* was harvested, the run still reports the harvested records: scrape hands
\* them to its caller and main passes them to save_results.
C11_PartialReported ==
    (pc = "exit" /\ outcome = "error" /\ Len(results) >= 1) =>
        /\ returned = results
        /\ save_arg = results

-----------------------------------------------------------------------------
\* Properties of BrowserlessClient.

\* C8: connect makes at most max_retries attempts, ends with the session at
\* its first successful attempt, and raises only when max_retries attempts
\* were made and none succeeded.
C8_ConnectAttempts ==
    /\ attempts_made <= max_retries
    /\ succeeded <= 1
    /\ succeeded = 1 =>
          cpc = "idle" /\ conn_result = "returned" /\ conn_value = "browser"
    /\ conn_result = "raised" =>
          cpc = "idle" /\ succeeded = 0 /\ attempts_made = max_retries

\* C8's case: a connect that raised after using up several attempts.
C8_Witness ==
    /\ conn_result = "raised"
    /\ max_retries >= 2
    /\ attempts_made = max_retries

\* C19: the k-th wait of a connect (k from 0) lasts retry_delay * 2^k; a wait
\* follows every failed attempt but the last one allowed and follows no
\* success, so a connect that used up its attempts waited max_retries - 1
\* times.
C19_BackoffDelays ==
    /\ \A k \in 1..Len(delays) : delays[k] = retry_delay * 2 ^ (k - 1)
    /\ cpc = "attempt" => Len(delays) = attempts_made
    /\ cpc = "sleep" => Len(delays) = attempts_made /\ attempts_made < max_retries
    /\ succeeded = 1 => Len(delays) = attempts_made - 1
    /\ conn_result = "raised" => Len(delays) = max_retries - 1

\* C19's case: a connect that used up its attempts after several waits.
C19_Witness ==
    /\ conn_result = "raised"
    /\ Len(delays) >= 3
    /\ delays[3] = 4 * retry_delay

\* C17: health_check never raises; it returns True exactly when no step of
\* it raised (the connect it may make, the context, the page, the
\* navigation, the title, the two closes), and False otherwise.
C17_HealthCheckTotal ==
    /\ [](hc_result \in {"none", "true", "false"})
    /\ []((hpc = "idle" /\ hc_result # "none") =>
            (hc_result = "true" <=> hc_failed = "none"))
    /\ [](hc_result = "true" => hc_context = "closed" /\ hc_page = "closed")
    /\ [][(hpc # "idle" /\ hc_result' = "true") =>
            /\ client_browser = "open"
            /\ hpc = "connect" => conn_result = "returned" /\ conn_value = "browser"]_vars

\* C17's case: the connect made by health_check used up its attempts and
\* health_check returned False.
C17_Witness ==
    /\ hc_result = "false"
    /\ hc_failed = "connect"
    /\ max_retries >= 2
    /\ attempts_made = max_retries

\* C21 (as claimed): once health_check has returned, with True or with
\* False, the throwaway context and the throwaway page it opened during the
\* call are closed.
C21_ProbeClosed ==
    (hpc = "idle" /\ hc_result \in {"true", "false"}) =>
        /\ hc_context # "open"
        /\ hc_page # "open"

\* The step in which a connect returns normally: a successful attempt, or
\* the entry itself when the loop has no iteration to run.
ConnectReturned ==
    \/ cpc = "attempt" /\ cpc' = "idle" /\ conn_result' = "returned"
    \/ cpc = "idle" /\ hpc = "idle" /\ hpc' # "probe" /\ ConnectEnter /\ cpc' = "idle"

\* C22 (as claimed): for every max_retries, 0 included, a connect that
\* returns normally returns a connected session and leaves self.browser set
\* to it.
C22_ConnectReturnsSession ==
    [][ConnectReturned => (conn_value' = "browser" /\ client_browser' = "open")]_vars

\* C9 (as claimed): disconnect never raises, and a disconnect that follows a
\* disconnect leaves the client as the first one left it.
C9_DisconnectIdempotent ==
    /\ disc_result # "raised"
    /\ consec_disc = 2 => <<client_browser, client_playwright>> = before_disc

-----------------------------------------------------------------------------
\* Properties of save_results.

\* The data rows of the sheet that hold url u.
RowsOf(u) == { i \in 2..Len(sheet) : sheet[i] = RowOf([url |-> u]) }

\* C5 (as claimed): the sheet never holds two data rows with the same url.
C5_OneRowPerUrl ==
    \A u \in URLs : Cardinality(RowsOf(u)) <= 1

\* C6 (as claimed): when the same list is persisted twice in a row, the
\* remote backend on and every remote call succeeding both times, the second
\* call appends no row and the sheet holds exactly one row for each url of
\* the list.
C6_PersistTwiceIdempotent ==
    ( /\ ppc = "idle"
      /\ cur_arg # <<>>
      /\ cur_arg = prev_arg
      /\ cur_clean
      /\ prev_clean )
    => /\ appended = 0
       /\ \A i \in DOMAIN cur_arg : Cardinality(RowsOf(cur_arg[i].url)) = 1

\* C7: once save_results has returned, the remote backend was attempted
\* exactly if it is enabled and the local one exactly if it is enabled,
\* whatever the other did, and success_count counts every save that
\* succeeded: a raising or failing backend hides no other backend's success.
C7_BackendIsolation ==
    (ppc = "idle" /\ cur_arg # <<>>) =>
        /\ use_sheets <=> remote_outcome # "skipped"
        /\ use_local <=> json_outcome # "skipped"
        /\ success_count =
              Saved(json_outcome) + Saved(csv_outcome) + Saved(remote_outcome)

\* C7's case: the local block raised and the remote save still succeeded and
\* was counted.
C7_Witness ==
    /\ ppc = "idle"
    /\ json_outcome = "raised"
    /\ remote_outcome = "saved"
    /\ success_count = 1

-----------------------------------------------------------------------------
\* Properties of _parse_views_count.

\* The decimal digits of a natural number.
RECURSIVE Dec(_)
Dec(n) == IF n < 10 THEN <<n>> ELSE Append(Dec(n \div 10), n % 10)

\* The documented values.
Documented ==
    { <<Text(<<"1", ".", "2", "M">>), Dec(1200000)>>,
      <<Text(<<"1", ",", "2", "3", "4">>), Dec(1234)>>,
      <<Text(<<"3", "U+4E07">>), Dec(30000)>>,
      <<Text(<<"2", "U+5104">>), Dec(200000000)>>,
      <<Text(<<"5", "0", "0">>), Dec(500)>>,
      <<Text(<<>>), Dec(0)>>,
      <<NoneText, Dec(0)>> }

\* The integer part of the decimal number written by run times multiplier (a
\* power of ten), by moving the point.
ExactProduct(run, multiplier) ==
    LET isDigit(c) == c \in DigitSet
        ds == SelectSeq(run, isDigit)
        digits == [i \in 1..Len(ds) |-> DigitValue(ds[i])]
        point == IF \E i \in 1..Len(run) : run[i] = "."
                 THEN CHOOSE i \in 1..Len(run) : run[i] = "."
                 ELSE Len(run) + 1
        frac == IF point > Len(run) THEN 0 ELSE Len(run) - point
        shift == Log10(multiplier) - frac
    IN  IF shift >= 0 THEN StripZeros(digits \o ZerosSeq(shift))
        ELSE IF Len(digits) <= -shift THEN <<0>>
        ELSE StripZeros(SubSeq(digits, 1, Len(digits) + shift))

\* The text is a number, grouping commas apart.
IsNumber(chars) ==
    LET text == RemoveCommas(chars)
    IN  /\ \A i \in 1..Len(text) : InRun(text[i])
        /\ IsFloatLiteral(text)

\* The text is a number followed by the k-th unit of the table.
IsNumberWithUnit(chars, k) ==
    LET text == RemoveCommas(chars)
    IN  /\ Len(text) >= 2
        /\ text[Len(text)] = multipliers[k].unit
        /\ IsNumber(SubSeq(text, 1, Len(text) - 1))

\* C13 (as claimed): the documented texts give the documented integers; a
\* number followed by a unit of the table gives the number times the unit's
\* factor, truncated to an integer; a number with no unit gives its integer
\* part.
C13_DocumentedValues ==
    vpc # "input" =>
        /\ ~views_count.raised
        /\ \A d \in Documented : views_text = d[1] => views_count.value = d[2]
        /\ (~views_text.none /\ IsNumber(views_text.chars)) =>
              views_count.value = ExactProduct(RemoveCommas(views_text.chars), 1)
        /\ \A k \in 1..Len(multipliers) :
              (~views_text.none /\ IsNumberWithUnit(views_text.chars, k)) =>
                 views_count.value =
                    LET text == RemoveCommas(views_text.chars)
                    IN  ExactProduct(SubSeq(text, 1, Len(text) - 1),
                                     multipliers[k].multiplier)

\* The first run of digits and points of the text, if any, is a number.
HasParsableNumber(chars) ==
    LET run == FirstRun(RemoveCommas(chars))
    IN  run # <<>> /\ IsFloatLiteral(run)

\* The digits of a natural number: at least one digit, none out of 0..9, no
\* leading zero.
IsNatural(v) ==
    /\ Len(v) >= 1
    /\ \A i \in 1..Len(v) : v[i] \in 0..9
    /\ Len(v) > 1 => v[1] # 0

\* C14: on every argument (None, the empty text, any text, the malformed
\* ones included) _parse_views_count returns, never raises, and returns a
\* natural number: 0 when no number can be parsed; a second call on the
\* same argument returns the same value.
C14_ParseTotal ==
    /\ vpc # "input" =>
          /\ ~views_count.raised
          /\ IsNatural(views_count.value)
          /\ (views_text.none \/ ~HasParsableNumber(views_text.chars)) =>
                views_count.value = <<0>>
    /\ vpc = "again" => views_again = views_count

\* C14's case: a unit with a lone point and no digit, parsed twice.
C14_Witness ==
    /\ vpc = "again"
    /\ views_text = Text(<<".", "K">>)
    /\ views_count = Returned(<<0>>)

-----------------------------------------------------------------------------
\* Properties of the local test.

\* C15: with target 5 and a backend that rendered at least 5 (say 8)
\* well-formed elements in the first cycle and never grows, no scroll is ever
\* issued (the counter stays 0), scrape returns exactly the first 5 records in
\* DOM order, and the save to the fresh JSON file, when it succeeds, leaves
\* exactly these 5 records in the file, each with saved_at.
C15_LocalTestScenario ==
    (dom # <<>> /\ Len(dom) >= max_results) =>
        /\ scroll_attempts = 0
        /\ pc # "scroll"
        /\ (pc = "done" /\ outcome = "ok") =>
              /\ returned = [i \in 1..max_results |-> [id |-> i]]
              /\ save_ret = "true" =>
                    file = JsonDump([i \in 1..max_results |->
                                       [id |-> i, saved_at |-> "now"]])

\* C15's case: target 5, 8 elements rendered, the run ended and the save
\* succeeded.
C15_Witness ==
    /\ pc = "done"
    /\ outcome = "ok"
    /\ max_results = 5
    /\ Len(dom) = 8
    /\ save_ret = "true"
    /\ Len(file.items) = 5

-----------------------------------------------------------------------------
\* Properties of the local JSON backend.

\* C20 (as claimed): after save calls that all succeeded, with no clear in
\* between, load returns the concatenation of the saved lists in call order,
\* and every record in the file carries saved_at.
C20_LoadIsConcatenation ==
    (saves >= 1 /\ failed_saves = 0) =>
        /\ JsonLoad(file, TRUE) = saved_log
        /\ \A i \in 1..Len(file.items) : "saved_at" \in DOMAIN file.items[i]

\* C23 (as claimed): a save never discards persisted records: whatever the
\* state of the file, readable at that moment or not, and whether the save
\* returns True or False, every record the file held before the save is
\* still in it afterwards.
C23_SaveKeepsRecords ==
    [][(saves' = saves + 1) =>
          /\ Len(file'.items) >= Len(file.items)
          /\ \A i \in 1..Len(file.items) : file'.items[i] = file.items[i]]_vars

-----------------------------------------------------------------------------
\* Properties of the remote deduplication.

\* C24 (as claimed): when check_duplicates could not read the rows of the
\* sheet, the Sheets block appends no record whose url the sheet already
\* holds: none of the rows it appended equals a data row that was there
\* before.
C24_NoAppendUnfetched ==
    (ppc = "summary" /\ fetch_failed) =>
        \A i \in (Len(sheet) - appended + 1)..Len(sheet) :
            \A j \in 2..(Len(sheet) - appended) : sheet[i] # sheet[j]

====
